---- MODULE Spec2Model ----
(***************************************************************************)
(* Model of js/main.js, the client-side enhancement script of the          *)
(* portfolio page: the init() sequence and every event handler it wires.   *)
(* The browser is the environment: it owns the document's readiness, the   *)
(* media query, image requests, the viewport and the timer queue.          *)
(* Handlers run to completion, so each handler is one action; init() is    *)
(* followed call by call through pc, and no event is dispatched while it   *)
(* runs.                                                                   *)
(***************************************************************************)
EXTENDS Integers, Sequences, FiniteSets, TLC

(***************************************************************************)
(* The static document.                                                    *)
(***************************************************************************)
\* elements carrying the data-animate attribute
AnimEls == {"hero", "card"}
\* number of .project-card elements; card k (1-based document order) has index k-1
NumCards == 3
Cards == 1..NumCards
\* .project-image elements
Images == {"photo", "gif"}
\* .project-link elements and the .project-image-animated nested in each
Links == {"work1", "work2"}
NoImage == "none"
AnimatedImage(l) == IF l = "work1" THEN "gif" ELSE NoImage
\* a[href^="#"] elements, named by their href
Anchors == {"#", "#work", "#missing"}
\* fragments that resolve to an element of the document
Targets == {"#work"}
\* a elements that may carry target="_blank"
ExtLinks == {"x1", "x2"}

(***************************************************************************)
(* Bounds of the exploration.                                              *)
(***************************************************************************)
\* timers the page may create in one run (timer ids are never reused)
MaxTimers == 3
\* the largest step of time between two events
Quantum == 50
\* entries delivered to one IntersectionObserver callback
MaxEntries == 2
\* mouseenter events counted per project link
MaxHovers == 2

(***************************************************************************)
(* Program constants.                                                      *)
(***************************************************************************)
\* setTimeout(..., 100) in the resize and orientationchange listeners
TimerDelay == 100

Heights == {600, 800}
HeaderHeights == {0, 60}
OffsetTops == {40, 500}
Keys == {"Tab", "Enter"}

VARIABLES
    pc,             \* position of init(): "start", "waiting", a step name, "done"
    readyState,     \* document.readyState
    hasIO,          \* 'IntersectionObserver' in window
    mqMatches,      \* prefersReducedMotion.matches
    listeners,      \* document/window/body/media-query listeners registered so far
    bodyClass,      \* document.body.classList
    animateIn,      \* data-animate elements whose classList holds animate-in
    watched,        \* observation targets of the IntersectionObserver
    transitionDelay,\* card.style.transitionDelay per card, or Unset
    hasHeader,      \* whether a .header element exists
    headerHeight,   \* its offsetHeight
    targetTop,      \* offsetTop of each resolvable fragment target
    lastClick,      \* what the click handler did on the latest anchor click
    imgStatus,      \* state of each image's current request
    imgSrc,         \* src of each image
    imgClass,       \* classList of each project image (loaded / error)
    imgListeners,   \* images that carry the load and error listeners
    hoverArmed,     \* links whose once-mouseenter listener is still registered
    hovers,         \* mouseenter events dispatched on each link since wiring
    reloads,        \* force-reloads performed through each link
    blank,          \* whether each ExtLinks element has target="_blank"
    rel,            \* rel attribute of each ExtLinks element (Unset if absent)
    rel0,           \* the rel attributes the document was served with
    innerHeight,    \* window.innerHeight
    vh,             \* the --vh property of the root element, or Unset
    timers,         \* pending timeouts: [id, kind, remaining]
    nextTimerId,    \* next id setTimeout returns
    resizeTimer,    \* the closure variable resizeTimer (0 while undefined)
    burst,          \* bookkeeping of the current run of resize events
    calls,          \* the functions init() has called so far, in order
    tabSinceMouse,  \* a Tab keydown was dispatched and no mousedown since
    orient          \* orientationchange events dispatched, and their timeouts run

vars == <<pc, readyState, hasIO, mqMatches, listeners, bodyClass, animateIn,
          watched, transitionDelay, hasHeader, headerHeight, targetTop,
          lastClick, imgStatus, imgSrc, imgClass, imgListeners, hoverArmed,
          hovers, reloads, blank, rel, rel0, innerHeight, vh, timers,
          nextTimerId, resizeTimer, burst, calls, tabSinceMouse, orient>>

animVars == <<animateIn, watched>>
motionVars == <<mqMatches, bodyClass>>
scrollVars == <<hasHeader, headerHeight, targetTop, lastClick>>
imageVars == <<imgStatus, imgSrc, imgClass, imgListeners, hoverArmed, hovers, reloads>>
linkVars == <<blank, rel, rel0>>
viewVars == <<innerHeight, vh, timers, nextTimerId, resizeTimer, burst>>
pageVars == <<pc, readyState, hasIO, listeners, transitionDelay>>
histVars == <<calls, tabSinceMouse, orient>>

\* An optional value (an attribute or style property that may be absent) is a
\* sequence of length 0 or 1.
Unset == <<>>
Some(v) == <<v>>
NoClick == [href |-> "none", prevented |-> FALSE, scrolls |-> <<>>]
\* burst: the resize events of the current burst (each less than TimerDelay
\* after the one before), the time since the last of them, the inner height
\* it left, whether the inner height is still that one, the recomputations
\* its timeouts have made and the value the last of these published
NoBurst == [events |-> 0, age |-> 0, fired |-> 0, height |-> 0, clean |-> TRUE,
            published |-> <<>>]

(***************************************************************************)
(* Strings: String.prototype.indexOf and the split of a rel value into its *)
(* space-separated tokens.                                                 *)
(***************************************************************************)
SetMin(S) == CHOOSE x \in S : \A y \in S : x <= y

\* s.indexOf(sub): 0-based position of the first occurrence, -1 if none
IndexOf(s, sub) ==
    LET hits == {i \in 1..(Len(s) - Len(sub) + 1) : SubSeq(s, i, i + Len(sub) - 1) = sub}
    IN  IF hits = {} THEN -1 ELSE SetMin(hits) - 1

RECURSIVE SplitFrom(_, _, _)
\* tokens of s from position i on, cur being the token read so far
SplitFrom(s, i, cur) ==
    IF i > Len(s)
    THEN IF cur = "" THEN <<>> ELSE <<cur>>
    ELSE IF SubSeq(s, i, i) = " "
         THEN (IF cur = "" THEN <<>> ELSE <<cur>>) \o SplitFrom(s, i + 1, "")
         ELSE SplitFrom(s, i + 1, cur \o SubSeq(s, i, i))

\* the token list of an optional attribute value
Tokens(a) == IF a = Unset THEN <<>> ELSE SplitFrom(a[1], 1, "")

Range(q) == {q[i] : i \in 1..Len(q)}

(***************************************************************************)
(* Values the script computes.                                             *)
(***************************************************************************)
\* a decimal number with its CSS unit, kept exact as num/den
Css(n, d, u) == [num |-> n, den |-> d, unit |-> u]

\* `${index * 0.1}s`
StaggerDelay(index) == Css(index, 10, "s")

\* `${window.innerHeight * 0.01}px`
VhValue(h) == Css(h, 100, "px")

\* img.complete: no request of the image is still in flight
Complete(status) == status # "loading"

(***************************************************************************)
(* The page as served: what the browser presents when the script starts.   *)
(***************************************************************************)
ImgStates == {"loading", "loaded", "broken"}
SrcOf(i) == "/img/" \o i

InitWith(E) ==
    \E e \in E :
        /\ pc = "start"
        /\ readyState = e.readyState
        /\ hasIO = e.hasIO
        /\ mqMatches = e.mqMatches
        /\ listeners = {}
        /\ bodyClass = {}
        /\ animateIn = {}
        /\ watched = {}
        /\ transitionDelay = [c \in Cards |-> Unset]
        /\ hasHeader = e.hasHeader
        /\ headerHeight = e.headerHeight
        /\ targetTop = e.targetTop
        /\ lastClick = NoClick
        /\ imgStatus = e.imgStatus
        /\ imgSrc = [i \in Images |-> SrcOf(i)]
        /\ imgClass = [i \in Images |-> {}]
        /\ imgListeners = {}
        /\ hoverArmed = {}
        /\ hovers = [l \in Links |-> 0]
        /\ reloads = [l \in Links |-> 0]
        /\ blank = e.blank
        /\ rel = e.rel
        /\ rel0 = e.rel
        /\ innerHeight = e.innerHeight
        /\ vh = Unset
        /\ timers = {}
        /\ nextTimerId = 1
        /\ resizeTimer = 0
        /\ burst = NoBurst
        /\ calls = <<>>
        /\ tabSinceMouse = FALSE
        /\ orient = [events |-> 0, fired |-> 0]

(***************************************************************************)
(* The functions init() calls, as the effect each has on the page.         *)
(***************************************************************************)
\* checkReducedMotion() that sets the body class but leaves the elements pending
checkReducedMotion_noReveal ==
    /\ IF mqMatches
       THEN bodyClass' = bodyClass \cup {"reduce-motion"}
       ELSE UNCHANGED bodyClass
    /\ UNCHANGED animateIn
    /\ listeners' = listeners \cup {"change"}

\* checkReducedMotion(): lines 135-155
checkReducedMotion ==
    /\ IF mqMatches
       THEN /\ bodyClass' = bodyClass \cup {"reduce-motion"}
            /\ animateIn' = animateIn \cup AnimEls
       ELSE UNCHANGED <<bodyClass, animateIn>>
    /\ listeners' = listeners \cup {"change"}

\* addStaggerDelay() that counts the cards from one
addStaggerDelay_fromOne ==
    transitionDelay' = [c \in Cards |-> Some(StaggerDelay(c))]

\* addStaggerDelay(): card k of the NodeList has forEach index k-1
addStaggerDelay ==
    transitionDelay' = [c \in Cards |-> Some(StaggerDelay(c - 1))]

\* initScrollAnimations() that observes only the elements still pending
initScrollAnimations_skipRevealed ==
    IF ~hasIO
    THEN /\ animateIn' = animateIn \cup AnimEls
         /\ UNCHANGED watched
    ELSE /\ watched' = watched \cup (AnimEls \ animateIn)
         /\ UNCHANGED animateIn

\* initScrollAnimations() without the fallback of lines 15-21
initScrollAnimations_noFallback ==
    IF ~hasIO
    THEN UNCHANGED <<animateIn, watched>>
    ELSE /\ watched' = watched \cup AnimEls
         /\ UNCHANGED animateIn

\* initScrollAnimations(): the fallback without IntersectionObserver, else observe all
initScrollAnimations ==
    IF ~hasIO
    THEN /\ animateIn' = animateIn \cup AnimEls
         /\ UNCHANGED watched
    ELSE /\ watched' = watched \cup AnimEls
         /\ UNCHANGED animateIn

\* initSmoothScroll(): a click listener on every a[href^="#"]
initSmoothScroll ==
    listeners' = listeners \cup {"click"}

\* optimizeImageLoading(): complete images are marked, the others get listeners
optimizeImageLoading ==
    /\ imgClass' = [i \in Images |->
                      IF Complete(imgStatus[i]) THEN imgClass[i] \cup {"loaded"}
                      ELSE imgClass[i]]
    /\ imgListeners' = imgListeners \cup {i \in Images : ~Complete(imgStatus[i])}

\* initGifPreloading(): a once-listener on every link with a nested animated image
initGifPreloading ==
    hoverArmed' = hoverArmed \cup {l \in Links : AnimatedImage(l) # NoImage}

\* the rel value secureExternalLinks leaves on one a[target="_blank"]
SecuredRel(a) ==
    IF a = Unset \/ IndexOf(a[1], "noopener") = -1
    THEN LET currentRel == IF a = Unset \/ a[1] = "" THEN "" ELSE a[1]
         IN  Some(currentRel \o " noopener noreferrer")
    ELSE a

\* secureExternalLinks(): only a[target="_blank"] is selected
secureExternalLinks ==
    rel' = [l \in ExtLinks |-> IF blank[l] THEN SecuredRel(rel[l]) ELSE rel[l]]

\* enhanceKeyboardNavigation(): two listeners on the body
enhanceKeyboardNavigation ==
    listeners' = listeners \cup {"keydown", "mousedown"}

\* setVhProperty() that publishes only when --vh has no value yet
setVhProperty_once ==
    vh' = IF vh = Unset THEN Some(VhValue(innerHeight)) ELSE vh

\* setVhProperty(): publish one hundredth of the current inner height
setVhProperty ==
    vh' = Some(VhValue(innerHeight))

(***************************************************************************)
(* init(): deferred while the document is loading, then the fixed call     *)
(* sequence, then the resize and orientationchange listeners.              *)
(***************************************************************************)
\* an init() that registers itself for DOMContentLoaded but does not return
init_noReturn ==
    /\ pc = "start"
    /\ IF readyState = "loading"
       THEN listeners' = listeners \cup {"DOMContentLoaded"}
       ELSE UNCHANGED listeners
    /\ pc' = "checkReducedMotion"
    /\ UNCHANGED <<readyState, hasIO, transitionDelay, animVars, motionVars,
                   scrollVars, imageVars, linkVars, viewVars>>
    /\ UNCHANGED histVars

\* init() as first called by the script: lines 218-223
init ==
    /\ pc = "start"
    /\ IF readyState = "loading"
       THEN /\ listeners' = listeners \cup {"DOMContentLoaded"}
            /\ pc' = "waiting"
       ELSE /\ pc' = "checkReducedMotion"
            /\ UNCHANGED listeners
    /\ UNCHANGED <<readyState, hasIO, transitionDelay, animVars, motionVars,
                   scrollVars, imageVars, linkVars, viewVars>>
    /\ UNCHANGED histVars

\* the browser finishes parsing and calls the deferred init()
DOMContentLoaded ==
    /\ pc = "waiting"
    /\ "DOMContentLoaded" \in listeners
    /\ readyState' = "interactive"
    /\ pc' = "checkReducedMotion"
    /\ UNCHANGED <<hasIO, listeners, transitionDelay, animVars, motionVars,
                   scrollVars, imageVars, linkVars, viewVars>>
    /\ UNCHANGED histVars

init_checkReducedMotion ==
    /\ pc = "checkReducedMotion"
    /\ checkReducedMotion
    /\ pc' = "addStaggerDelay"
    /\ UNCHANGED <<readyState, hasIO, transitionDelay, watched, mqMatches,
                   scrollVars, imageVars, linkVars, viewVars>>
    /\ calls' = Append(calls, "checkReducedMotion")
    /\ UNCHANGED <<tabSinceMouse, orient>>

init_addStaggerDelay ==
    /\ pc = "addStaggerDelay"
    /\ addStaggerDelay
    /\ pc' = "initScrollAnimations"
    /\ UNCHANGED <<readyState, hasIO, listeners, animVars, motionVars,
                   scrollVars, imageVars, linkVars, viewVars>>
    /\ calls' = Append(calls, "addStaggerDelay")
    /\ UNCHANGED <<tabSinceMouse, orient>>

init_initScrollAnimations ==
    /\ pc = "initScrollAnimations"
    /\ initScrollAnimations
    /\ pc' = "initSmoothScroll"
    /\ UNCHANGED <<readyState, hasIO, listeners, transitionDelay, motionVars,
                   scrollVars, imageVars, linkVars, viewVars>>
    /\ calls' = Append(calls, "initScrollAnimations")
    /\ UNCHANGED <<tabSinceMouse, orient>>

init_initSmoothScroll ==
    /\ pc = "initSmoothScroll"
    /\ initSmoothScroll
    /\ pc' = "optimizeImageLoading"
    /\ UNCHANGED <<readyState, hasIO, transitionDelay, animVars, motionVars,
                   scrollVars, imageVars, linkVars, viewVars>>
    /\ calls' = Append(calls, "initSmoothScroll")
    /\ UNCHANGED <<tabSinceMouse, orient>>

init_optimizeImageLoading ==
    /\ pc = "optimizeImageLoading"
    /\ optimizeImageLoading
    /\ pc' = "initGifPreloading"
    /\ UNCHANGED <<readyState, hasIO, listeners, transitionDelay, animVars,
                   motionVars, scrollVars, imgStatus, imgSrc, hoverArmed, hovers,
                   reloads, linkVars, viewVars>>
    /\ calls' = Append(calls, "optimizeImageLoading")
    /\ UNCHANGED <<tabSinceMouse, orient>>

init_initGifPreloading ==
    /\ pc = "initGifPreloading"
    /\ initGifPreloading
    /\ pc' = "secureExternalLinks"
    /\ UNCHANGED <<readyState, hasIO, listeners, transitionDelay, animVars,
                   motionVars, scrollVars, imgStatus, imgSrc, imgClass,
                   imgListeners, hovers, reloads, linkVars, viewVars>>
    /\ calls' = Append(calls, "initGifPreloading")
    /\ UNCHANGED <<tabSinceMouse, orient>>

init_secureExternalLinks ==
    /\ pc = "secureExternalLinks"
    /\ secureExternalLinks
    /\ pc' = "enhanceKeyboardNavigation"
    /\ UNCHANGED <<readyState, hasIO, listeners, transitionDelay, animVars,
                   motionVars, scrollVars, imageVars, blank, rel0, viewVars>>
    /\ calls' = Append(calls, "secureExternalLinks")
    /\ UNCHANGED <<tabSinceMouse, orient>>

init_enhanceKeyboardNavigation ==
    /\ pc = "enhanceKeyboardNavigation"
    /\ enhanceKeyboardNavigation
    /\ pc' = "setVhProperty"
    /\ UNCHANGED <<readyState, hasIO, transitionDelay, animVars, motionVars,
                   scrollVars, imageVars, linkVars, viewVars>>
    /\ calls' = Append(calls, "enhanceKeyboardNavigation")
    /\ UNCHANGED <<tabSinceMouse, orient>>

init_setVhProperty ==
    /\ pc = "setVhProperty"
    /\ setVhProperty
    /\ pc' = "addResizeListeners"
    /\ UNCHANGED <<readyState, hasIO, listeners, transitionDelay, animVars,
                   motionVars, scrollVars, imageVars, linkVars, innerHeight,
                   timers, nextTimerId, resizeTimer, burst>>
    /\ calls' = Append(calls, "setVhProperty")
    /\ UNCHANGED <<tabSinceMouse, orient>>

\* lines 244-254: let resizeTimer; the resize and orientationchange listeners
init_addResizeListeners ==
    /\ pc = "addResizeListeners"
    /\ listeners' = listeners \cup {"resize", "orientationchange"}
    /\ pc' = "done"
    /\ UNCHANGED <<readyState, hasIO, transitionDelay, animVars, motionVars,
                   scrollVars, imageVars, linkVars, viewVars>>
    /\ UNCHANGED histVars

InitSteps ==
    \/ init
    \/ DOMContentLoaded
    \/ init_checkReducedMotion
    \/ init_addStaggerDelay
    \/ init_initScrollAnimations
    \/ init_initSmoothScroll
    \/ init_optimizeImageLoading
    \/ init_initGifPreloading
    \/ init_secureExternalLinks
    \/ init_enhanceKeyboardNavigation
    \/ init_setVhProperty
    \/ init_addResizeListeners

(***************************************************************************)
(* Event handlers.  The browser dispatches an event only between tasks:    *)
(* after init() has returned, and, for input events, when no timeout is    *)
(* due (a timeout runs when its delay has elapsed).                        *)
(***************************************************************************)
Due == {t \in timers : t.remaining = 0}
Ready == pc = "done" /\ Due = {}

RECURSIVE DeliverEntries_keepWatching(_, _, _)
\* an observer callback that reveals but never calls unobserve
DeliverEntries_keepWatching(entries, k, st) ==
    IF k > Len(entries) THEN st
    ELSE LET entry == entries[k]
         IN  IF entry.isIntersecting
             THEN DeliverEntries_keepWatching(entries, k + 1,
                      [animateIn |-> st.animateIn \cup {entry.target},
                       watched |-> st.watched])
             ELSE DeliverEntries_keepWatching(entries, k + 1, st)

RECURSIVE DeliverEntries(_, _, _)
\* entries.forEach of the observer callback, from entry k on; st holds the
\* animate-in set and the observation targets
DeliverEntries(entries, k, st) ==
    IF k > Len(entries) THEN st
    ELSE LET entry == entries[k]
         IN  IF entry.isIntersecting
             THEN DeliverEntries(entries, k + 1,
                      [animateIn |-> st.animateIn \cup {entry.target},
                       watched |-> st.watched \ {entry.target}])
             ELSE DeliverEntries(entries, k + 1, st)

EntryLists ==
    UNION {[1..n -> [target : watched, isIntersecting : BOOLEAN]] : n \in 1..MaxEntries}

\* the IntersectionObserver callback: lines 29-37
onIntersect(entries) ==
    /\ Ready
    /\ LET st == DeliverEntries(entries, 1, [animateIn |-> animateIn, watched |-> watched])
       IN  /\ animateIn' = st.animateIn
           /\ watched' = st.watched
    /\ UNCHANGED <<pageVars, motionVars, scrollVars, imageVars, linkVars, viewVars>>
    /\ UNCHANGED histVars

\* a change listener that adds the class but never removes it
onMotionChange_addOnly(m) ==
    /\ Ready
    /\ m # mqMatches
    /\ mqMatches' = m
    /\ IF "change" \in listeners
       THEN bodyClass' = IF m THEN bodyClass \cup {"reduce-motion"} ELSE bodyClass
       ELSE UNCHANGED bodyClass
    /\ UNCHANGED <<pageVars, animVars, scrollVars, imageVars, linkVars, viewVars>>
    /\ UNCHANGED histVars

\* a change listener that repeats the forced reveal when the preference goes on
onMotionChange_reveal(m) ==
    /\ Ready
    /\ m # mqMatches
    /\ mqMatches' = m
    /\ IF "change" \in listeners
       THEN /\ bodyClass' = IF m THEN bodyClass \cup {"reduce-motion"}
                            ELSE bodyClass \ {"reduce-motion"}
            /\ animateIn' = IF m THEN animateIn \cup AnimEls ELSE animateIn
       ELSE UNCHANGED <<bodyClass, animateIn>>
    /\ UNCHANGED <<pageVars, watched, scrollVars, imageVars, linkVars, viewVars>>
    /\ UNCHANGED histVars

\* a change listener that also takes the reveal back when the preference goes off
onMotionChange_unreveal(m) ==
    /\ pc = "done"
    /\ {t \in timers : t.remaining = 0} = {}
    /\ m # mqMatches
    /\ mqMatches' = m
    /\ bodyClass' = IF m THEN bodyClass \cup {"reduce-motion"}
                    ELSE bodyClass \ {"reduce-motion"}
    /\ animateIn' = IF m THEN animateIn \cup AnimEls ELSE {}
    /\ UNCHANGED <<pageVars, watched, scrollVars, imageVars, linkVars, viewVars>>
    /\ UNCHANGED histVars

\* the media query flips to m; its change listener: lines 148-154
onMotionChange(m) ==
    /\ Ready
    /\ m # mqMatches
    /\ mqMatches' = m
    /\ IF "change" \in listeners
       THEN bodyClass' = IF m THEN bodyClass \cup {"reduce-motion"}
                         ELSE bodyClass \ {"reduce-motion"}
       ELSE UNCHANGED bodyClass
    /\ UNCHANGED <<pageVars, animVars, scrollVars, imageVars, linkVars, viewVars>>
    /\ UNCHANGED histVars

\* a header height taken without checking that a header element exists
HeaderOffset_unchecked == headerHeight

\* .header?.offsetHeight || 0
HeaderOffset == IF hasHeader THEN headerHeight ELSE 0

\* a click listener without the early return of line 66
ClickOutcome_noEarlyReturn(href) ==
    [href |-> href, prevented |-> TRUE,
     scrolls |-> IF href \in Targets
                 THEN <<[top |-> targetTop[href] - HeaderOffset,
                         behavior |-> "smooth"]>>
                 ELSE <<>>]

\* a click listener that calls preventDefault only once the target is found
ClickOutcome_lateDefault(href) ==
    IF href = "#" \/ href = ""
    THEN [href |-> href, prevented |-> FALSE, scrolls |-> <<>>]
    ELSE [href |-> href, prevented |-> href \in Targets,
          scrolls |-> IF href \in Targets
                      THEN <<[top |-> targetTop[href] - HeaderOffset,
                              behavior |-> "smooth"]>>
                      ELSE <<>>]

\* what the click listener of the anchor with this href does: lines 62-80
ClickOutcome(href) ==
    IF href = "#" \/ href = ""
    THEN [href |-> href, prevented |-> FALSE, scrolls |-> <<>>]
    ELSE [href |-> href, prevented |-> TRUE,
          scrolls |-> IF href \in Targets
                      THEN <<[top |-> targetTop[href] - HeaderOffset,
                              behavior |-> "smooth"]>>
                      ELSE <<>>]

onAnchorClick(a) ==
    /\ Ready
    /\ "click" \in listeners
    /\ lastClick' = ClickOutcome(a)
    /\ UNCHANGED <<pageVars, animVars, motionVars, hasHeader, headerHeight,
                   targetTop, imageVars, linkVars, viewVars>>
    /\ UNCHANGED histVars

\* the request of image i succeeds; its load listener: lines 96-98
onImageLoad(i) ==
    /\ Ready
    /\ imgStatus[i] = "loading"
    /\ imgStatus' = [imgStatus EXCEPT ![i] = "loaded"]
    /\ imgClass' = IF i \in imgListeners
                   THEN [imgClass EXCEPT ![i] = @ \cup {"loaded"}]
                   ELSE imgClass
    /\ UNCHANGED <<pageVars, animVars, motionVars, scrollVars, imgSrc,
                   imgListeners, hoverArmed, hovers, reloads, linkVars, viewVars>>
    /\ UNCHANGED histVars

\* the request of image i fails; its error listener: lines 100-103
onImageError(i) ==
    /\ Ready
    /\ imgStatus[i] = "loading"
    /\ imgStatus' = [imgStatus EXCEPT ![i] = "broken"]
    /\ imgClass' = IF i \in imgListeners
                   THEN [imgClass EXCEPT ![i] = @ \cup {"error"}]
                   ELSE imgClass
    /\ UNCHANGED <<pageVars, animVars, motionVars, scrollVars, imgSrc,
                   imgListeners, hoverArmed, hovers, reloads, linkVars, viewVars>>
    /\ UNCHANGED histVars

\* a mouseenter listener that reloads whatever the state of the image
ShouldReload_always(status) == TRUE

\* whether the mouseenter listener reloads the image: line 121
ShouldReload(status) == ~Complete(status)

\* a mouseenter listener registered without { once: true }
StaysRegistered_forever == TRUE

\* whether a listener registered with these options stays after it has run: line 126
StaysRegistered == FALSE

\* mouseenter on link l, one that was given the listener of lines 119-126 (on
\* the other links the event reaches no listener); the listener runs if it
\* is still registered.  Assigning src restarts the image's request.
onMouseEnter(l) ==
    /\ Ready
    /\ AnimatedImage(l) # NoImage
    /\ hovers[l] < MaxHovers
    /\ hovers' = [hovers EXCEPT ![l] = @ + 1]
    /\ IF l \in hoverArmed
       THEN LET img == AnimatedImage(l)
                src == imgSrc[img]
                cleared == [imgSrc EXCEPT ![img] = ""]
            IN  /\ hoverArmed' = IF StaysRegistered THEN hoverArmed ELSE hoverArmed \ {l}
                /\ IF ShouldReload(imgStatus[img])
                   THEN /\ imgSrc' = [cleared EXCEPT ![img] = src]
                        /\ imgStatus' = [imgStatus EXCEPT ![img] = "loading"]
                        /\ reloads' = [reloads EXCEPT ![l] = @ + 1]
                   ELSE UNCHANGED <<imgSrc, imgStatus, reloads>>
       ELSE UNCHANGED <<hoverArmed, imgSrc, imgStatus, reloads>>
    /\ UNCHANGED <<pageVars, animVars, motionVars, scrollVars, imgClass,
                   imgListeners, linkVars, viewVars>>
    /\ UNCHANGED histVars

\* a keydown listener that does not look at the key
onKeyDown_anyKey(key) ==
    /\ Ready
    /\ "keydown" \in listeners
    /\ bodyClass' = bodyClass \cup {"using-keyboard"}
    /\ UNCHANGED <<pageVars, animVars, mqMatches, scrollVars, imageVars, linkVars, viewVars>>
    /\ tabSinceMouse' = (key = "Tab" \/ tabSinceMouse)
    /\ UNCHANGED <<calls, orient>>

\* keydown on the body: lines 193-197
onKeyDown(key) ==
    /\ Ready
    /\ "keydown" \in listeners
    /\ bodyClass' = IF key = "Tab" THEN bodyClass \cup {"using-keyboard"} ELSE bodyClass
    /\ UNCHANGED <<pageVars, animVars, mqMatches, scrollVars, imageVars, linkVars, viewVars>>
    /\ tabSinceMouse' = (key = "Tab" \/ tabSinceMouse)
    /\ UNCHANGED <<calls, orient>>

\* mousedown on the body: lines 199-201
onMouseDown ==
    /\ Ready
    /\ "mousedown" \in listeners
    /\ bodyClass' = bodyClass \ {"using-keyboard"}
    /\ UNCHANGED <<pageVars, animVars, mqMatches, scrollVars, imageVars, linkVars, viewVars>>
    /\ tabSinceMouse' = FALSE
    /\ UNCHANGED <<calls, orient>>

(***************************************************************************)
(* The viewport, time and the timer queue.  A timeout runs when its delay  *)
(* has elapsed, so time does not advance past a pending timeout; timeouts  *)
(* due at the same instant run in the order they were set.                 *)
(***************************************************************************)
\* a clearTimeout that cancels nothing
ClearTimeout_noop(ts, id) == ts

\* clearTimeout(id) on the queue ts; an id that is not pending changes nothing
ClearTimeout(ts, id) == {t \in ts : t.id # id}

\* setTimeout(fn, delay) on the queue ts, the new timer getting the id given
SetTimeout(ts, id, kind, delay) == ts \cup {[id |-> id, kind |-> kind, remaining |-> delay]}

\* the window is resized to inner height h (the header reflows to height hh)
\* and the resize listener runs: lines 245-250
onResize(h, hh) ==
    /\ Ready
    /\ "resize" \in listeners
    /\ nextTimerId <= MaxTimers
    /\ innerHeight' = h
    /\ headerHeight' = hh
    /\ timers' = SetTimeout(ClearTimeout(timers, resizeTimer), nextTimerId, "resize", TimerDelay)
    /\ resizeTimer' = nextTimerId
    /\ nextTimerId' = nextTimerId + 1
    /\ burst' = [events |-> IF burst.events > 0 /\ burst.age < TimerDelay
                            THEN burst.events + 1 ELSE 1,
                 age |-> 0,
                 fired |-> IF burst.events > 0 /\ burst.age < TimerDelay
                           THEN burst.fired ELSE 0,
                 height |-> h,
                 clean |-> TRUE,
                 published |-> IF burst.events > 0 /\ burst.age < TimerDelay
                               THEN burst.published ELSE Unset]
    /\ UNCHANGED <<pageVars, animVars, motionVars, hasHeader, targetTop, lastClick,
                   imageVars, linkVars, vh>>
    /\ UNCHANGED histVars

\* an orientationchange listener that debounces as the resize listener does,
\* cancelling the orientation timeouts still pending
onOrientationChange_debounced(h) ==
    /\ Ready
    /\ "orientationchange" \in listeners
    /\ nextTimerId <= MaxTimers
    /\ innerHeight' = h
    /\ timers' = SetTimeout({t \in timers : t.kind # "orientation"},
                            nextTimerId, "orientation", TimerDelay)
    /\ nextTimerId' = nextTimerId + 1
    /\ burst' = [burst EXCEPT !.clean = @ /\ (h = innerHeight \/ burst.fired > 0)]
    /\ UNCHANGED <<pageVars, animVars, motionVars, scrollVars, imageVars, linkVars,
                   vh, resizeTimer>>
    /\ orient' = [orient EXCEPT !.events = @ + 1]
    /\ UNCHANGED <<calls, tabSinceMouse>>

\* the device turns, the inner height becomes h, and the orientationchange
\* listener runs: lines 252-254
onOrientationChange(h) ==
    /\ Ready
    /\ "orientationchange" \in listeners
    /\ nextTimerId <= MaxTimers
    /\ innerHeight' = h
    /\ timers' = SetTimeout(timers, nextTimerId, "orientation", TimerDelay)
    /\ nextTimerId' = nextTimerId + 1
    /\ burst' = [burst EXCEPT !.clean = @ /\ (h = innerHeight \/ burst.fired > 0)]
    /\ UNCHANGED <<pageVars, animVars, motionVars, scrollVars, imageVars, linkVars,
                   vh, resizeTimer>>
    /\ orient' = [orient EXCEPT !.events = @ + 1]
    /\ UNCHANGED <<calls, tabSinceMouse>>

\* time passes, up to the next pending timeout
Tick ==
    /\ Ready
    /\ timers # {} \/ (burst.events > 0 /\ burst.age < TimerDelay)
    /\ LET next == IF timers = {} THEN Quantum
                   ELSE SetMin({t.remaining : t \in timers})
           d == IF next < Quantum THEN next ELSE Quantum
       IN  /\ timers' = {[t EXCEPT !.remaining = @ - d] : t \in timers}
           /\ burst' = [burst EXCEPT !.age = IF @ + d > TimerDelay THEN TimerDelay ELSE @ + d]
    /\ UNCHANGED <<pageVars, animVars, motionVars, scrollVars, imageVars, linkVars,
                   innerHeight, vh, nextTimerId, resizeTimer>>
    /\ UNCHANGED histVars

\* the due timeout that runs next
FirstDue == CHOOSE t \in Due : \A u \in Due : t.id <= u.id

\* the timeout set by the resize listener runs: lines 247-249
onResizeTimer ==
    /\ pc = "done"
    /\ Due # {}
    /\ FirstDue.kind = "resize"
    /\ setVhProperty
    /\ timers' = timers \ {FirstDue}
    /\ burst' = [burst EXCEPT !.fired = @ + 1, !.published = vh']
    /\ UNCHANGED <<pageVars, animVars, motionVars, scrollVars, imageVars, linkVars,
                   innerHeight, nextTimerId, resizeTimer>>
    /\ UNCHANGED histVars

\* a timeout set by the orientationchange listener runs: line 253
onOrientationTimer ==
    /\ pc = "done"
    /\ Due # {}
    /\ FirstDue.kind = "orientation"
    /\ setVhProperty
    /\ timers' = timers \ {FirstDue}
    /\ UNCHANGED <<pageVars, animVars, motionVars, scrollVars, imageVars, linkVars,
                   innerHeight, nextTimerId, resizeTimer, burst>>
    /\ orient' = [orient EXCEPT !.fired = @ + 1]
    /\ UNCHANGED <<calls, tabSinceMouse>>

(***************************************************************************)
(* Specifications.                                                         *)
(***************************************************************************)
AnimEvents ==
    \/ \E entries \in EntryLists : onIntersect(entries)
    \/ \E m \in BOOLEAN : onMotionChange(m)

InputEvents ==
    \/ \E a \in Anchors : onAnchorClick(a)
    \/ \E key \in Keys : onKeyDown(key)
    \/ onMouseDown

ImageEvents ==
    \/ \E i \in Images : onImageLoad(i)
    \/ \E i \in Images : onImageError(i)
    \/ \E l \in Links : onMouseEnter(l)

\* viewport events with inner heights HS and header heights HHS, creating at
\* most cap timers
ViewEventsOver(HS, HHS, cap) ==
    \/ \E h \in HS, hh \in HHS : nextTimerId <= cap /\ onResize(h, hh)
    \/ \E h \in HS : nextTimerId <= cap /\ onOrientationChange(h)
    \/ Tick
    \/ onResizeTimer
    \/ onOrientationTimer

ViewEvents == ViewEventsOver(Heights, HeaderHeights, MaxTimers)

\* the pages and browsers a run may start from
RelInputs ==
    {"", "nofollow", "noopener", "noreferrer", "noopener noreferrer",
     "nofollow noopener", "noreferrer nofollow", "external nofollow"}
RelAttrs == {Unset} \cup {Some(r) : r \in RelInputs}

Page(rs, io, mq, hdr, hh, tt, st, bl, r, ih) ==
    [readyState |-> rs, hasIO |-> io, mqMatches |-> mq, hasHeader |-> hdr,
     headerHeight |-> hh, targetTop |-> tt, imgStatus |-> st, blank |-> bl,
     rel |-> r, innerHeight |-> ih]

ReadyStates == {"loading", "complete"}

\* Spec: every handler of the page.  Every browser condition at startup; the
\* still image is already loaded, the viewport keeps one size, and at most
\* PageTimers timers are created (SpecView explores the timer queue further).
PageTimers == 1

Pages ==
    {Page(rs, io, mq, TRUE, 60, [t \in Targets |-> 500],
          [i \in Images |-> IF i = "gif" THEN "loading" ELSE "loaded"],
          [l \in ExtLinks |-> l = "x1"], [l \in ExtLinks |-> Some("nofollow")], 600) :
        rs \in ReadyStates, io \in BOOLEAN, mq \in BOOLEAN}

Init == InitWith(Pages)

Next ==
    \/ InitSteps
    \/ AnimEvents
    \/ InputEvents
    \/ ImageEvents
    \/ ViewEventsOver({600}, {60}, PageTimers)

Spec == Init /\ [][Next]_vars

(***************************************************************************)
(* Properties of the whole page (Spec).                                    *)
(***************************************************************************)
\* init() has returned from checkReducedMotion() and is still running
AfterReducedMotion ==
    pc \in {"addStaggerDelay", "initScrollAnimations", "initSmoothScroll",
            "optimizeImageLoading", "initGifPreloading", "secureExternalLinks",
            "enhanceKeyboardNavigation", "setVhProperty", "addResizeListeners"}

\* init() has returned from addStaggerDelay()
AfterStagger ==
    pc \in {"initScrollAnimations", "initSmoothScroll", "optimizeImageLoading",
            "initGifPreloading", "secureExternalLinks", "enhanceKeyboardNavigation",
            "setVhProperty", "addResizeListeners", "done"}

\* C1: whatever step the page takes (an init call, a watcher callback, a
\* preference change, a click, a key or mouse event, an image event, a hover,
\* a resize, an orientation change, a timeout), every element that has
\* animate-in before the step has it after the step: the one-way transition
\* pending -> revealed happens at most once per element and is never undone.
C1_RevealIsOneWay == [][animateIn \subseteq animateIn']_vars

\* C1 witness: one element was revealed by the watcher, the other is still
\* pending, and a click, a Tab key, a preference change back to "no
\* preference" and a debounced recomputation have all been handled.
C1_Witness ==
    /\ pc = "done"
    /\ animateIn = {"hero"}
    /\ watched = {"card"}
    /\ lastClick.prevented
    /\ "using-keyboard" \in bodyClass
    /\ burst.fired = 1
    /\ ~mqMatches

\* C2: when the reduced-motion query matches as init() runs, every
\* data-animate element has animate-in from the moment checkReducedMotion()
\* returns and for the rest of init(); at that moment, and until
\* initScrollAnimations() runs, no element is observed, so no watcher
\* callback can have run.
C2_RevealedBeforeWatching ==
    /\ (AfterReducedMotion /\ mqMatches) => animateIn = AnimEls
    /\ pc \in {"start", "waiting", "checkReducedMotion", "addStaggerDelay",
               "initScrollAnimations"} => watched = {}

\* C2 witness: checkReducedMotion() has just returned under a matching query
C2_Witness ==
    /\ pc = "addStaggerDelay"
    /\ mqMatches
    /\ "reduce-motion" \in bodyClass
    /\ animateIn = AnimEls
    /\ watched = {}

\* C10: before addStaggerDelay() no card has a transition delay; from its
\* return on, in every state (so after any watcher callback or other
\* handler), the card at index i has a delay in seconds equal to i * 0.1,
\* that is, ten times the delay equals i.
C10_StaggerDelay ==
    /\ ~AfterStagger => \A c \in Cards : transitionDelay[c] = Unset
    /\ AfterStagger =>
         \A c \in Cards :
            /\ transitionDelay[c] # Unset
            /\ transitionDelay[c][1].unit = "s"
            /\ transitionDelay[c][1].num * 10 = (c - 1) * transitionDelay[c][1].den

\* C10 witness: the delays are in place after the watcher has revealed an
\* element and a resize has been handled
C10_Witness ==
    /\ pc = "done"
    /\ hasIO
    /\ animateIn = {"hero"}
    /\ watched = {"card"}
    /\ burst.events > 0
    /\ transitionDelay[NumCards] = Some(Css(NumCards - 1, 10, "s"))
    /\ transitionDelay[1] = Some(Css(0, 10, "s"))

(***************************************************************************)
(* External links (SpecLinks): init() on documents whose two links carry   *)
(* any combination of target and rel.                                      *)
(***************************************************************************)
LinkPages ==
    {Page(rs, TRUE, FALSE, TRUE, 60, [t \in Targets |-> 500],
          [i \in Images |-> "loaded"], bl, r, 600) :
        rs \in ReadyStates, bl \in [ExtLinks -> BOOLEAN], r \in [ExtLinks -> RelAttrs]}

InitLinks == InitWith(LinkPages)

SpecLinks == InitLinks /\ [][InitSteps]_vars

\* init() has returned from secureExternalLinks()
AfterSecure ==
    pc \in {"enhanceKeyboardNavigation", "setVhProperty", "addResizeListeners", "done"}

IsolationTokens == <<"noopener", "noreferrer">>

\* C3: once secureExternalLinks() has run, the rel of every link with
\* target="_blank" holds the token noopener and the token noreferrer,
\* whatever rel it was served with.
C3_BothIsolationTokens ==
    AfterSecure =>
        \A l \in ExtLinks :
            blank[l] => Range(IsolationTokens) \subseteq Range(Tokens(rel[l]))

\* C4: once secureExternalLinks() has run, a link without target="_blank"
\* has the rel it was served with; a target="_blank" link served without rel
\* has exactly the isolation tokens; and a target="_blank" link served with
\* tokens other than the isolation tokens has all the tokens it was served
\* with, in their order, followed by the isolation tokens.
C4_Additive ==
    AfterSecure =>
        \A l \in ExtLinks :
            /\ ~blank[l] => rel[l] = rel0[l]
            /\ (blank[l] /\ rel0[l] = Unset) => Tokens(rel[l]) = IsolationTokens
            /\ (blank[l] /\ Range(Tokens(rel0[l])) \ Range(IsolationTokens) # {}) =>
                  Tokens(rel[l]) = Tokens(rel0[l]) \o IsolationTokens

(***************************************************************************)
(* Viewport height (SpecView): init() and the resize, orientationchange    *)
(* and timeout handlers, over every inner height.                          *)
(***************************************************************************)
ViewPages ==
    {Page(rs, TRUE, FALSE, TRUE, hh, [t \in Targets |-> 500],
          [i \in Images |-> "loaded"], [l \in ExtLinks |-> FALSE],
          [l \in ExtLinks |-> Unset], ih) :
        rs \in ReadyStates, hh \in HeaderHeights, ih \in Heights}

InitView == InitWith(ViewPages)

NextView ==
    \/ InitSteps
    \/ ViewEvents

SpecView == InitView /\ [][NextView]_vars

ResizeTimers == {t \in timers : t.kind = "resize"}

\* C5: at most one timeout set by the resize listener is pending.  While
\* the latest resize event is less than 100 time-units old, its burst has
\* caused no recomputation and its timeout is pending, due exactly 100
\* time-units after that event.  Once 100 time-units have passed, the
\* timeout is either due at this very instant or has run, and then the
\* burst has caused exactly one recomputation; if the inner height is still
\* the one the last resize event left, that recomputation published one
\* hundredth of it, in px.
C5_ResizeDebounce ==
    /\ Cardinality(ResizeTimers) <= 1
    /\ burst.events >= 1 =>
         IF burst.age < TimerDelay
         THEN /\ burst.fired = 0
              /\ \E t \in ResizeTimers : t.remaining = TimerDelay - burst.age
         ELSE \/ /\ burst.fired = 0
                 /\ \E t \in ResizeTimers : t.remaining = 0
              \/ /\ burst.fired = 1
                 /\ ResizeTimers = {}
                 /\ burst.published # Unset
                 /\ burst.published[1].unit = "px"
                 /\ burst.clean =>
                      burst.published[1].num * 100 = burst.height * burst.published[1].den

\* C5 witness: a burst of three resize events that ended on a height other
\* than the first event's has produced its single recomputation
C5_Witness ==
    /\ burst.events = 3
    /\ burst.fired = 1
    /\ burst.height = 800
    /\ burst.published = Some(Css(800, 100, "px"))
    /\ vh = burst.published
    /\ timers = {}

(***************************************************************************)
(* Images (SpecImages): init() and the load, error and mouseenter          *)
(* handlers, from every state the image requests may be in at startup.     *)
(***************************************************************************)
ImagePages ==
    {Page(rs, TRUE, FALSE, TRUE, 60, [t \in Targets |-> 500], st,
          [l \in ExtLinks |-> FALSE], [l \in ExtLinks |-> Unset], 600) :
        rs \in ReadyStates, st \in [Images -> ImgStates]}

InitImages == InitWith(ImagePages)

NextImages ==
    \/ InitSteps
    \/ ImageEvents

SpecImages == InitImages /\ [][NextImages]_vars

HoverLinks == {l \in Links : AnimatedImage(l) # NoImage}

\* C6 as claimed: once a project link with a nested animated image has been
\* hovered, once or more, its image has been force-reloaded exactly once.
C6_FirstHoverReloads ==
    \A l \in HoverLinks : hovers[l] >= 1 => reloads[l] = 1

\* C6 as amended: the first hover of a project link with a nested animated
\* image force-reloads the image exactly when the image is not complete at
\* that moment, every later hover reloads nothing, no other step reloads,
\* and a reload leaves the image with the src it had.
C6_ReloadAtMostOnce ==
    [][/\ imgSrc' = imgSrc
       /\ \A l \in HoverLinks :
            reloads'[l] =
                IF hovers'[l] = hovers[l] + 1 /\ hovers[l] = 0
                   /\ ~Complete(imgStatus[AnimatedImage(l)])
                THEN 1
                ELSE reloads[l]]_vars

\* C6 witness: a link hovered twice whose image was reloaded once, and is
\* still loading
C6_Witness ==
    /\ hovers["work1"] = 2
    /\ reloads["work1"] = 1
    /\ imgStatus["gif"] = "loading"
    /\ "work1" \notin hoverArmed

\* C9: no step leaves a project image with both the loaded and the error
\* class, and an image that carries one of them keeps its class list as it
\* is through every later step (load, error, hover reload or init call).
C9_LoadedErrorExclusive ==
    [][\A i \in Images :
          /\ ~({"loaded", "error"} \subseteq imgClass'[i])
          /\ imgClass[i] # {} => imgClass'[i] = imgClass[i]]_vars

\* C9 witness: the animated image was reloaded by a hover and then loaded,
\* the other image failed
C9_Witness ==
    /\ reloads["work1"] = 1
    /\ imgClass["gif"] = {"loaded"}
    /\ imgClass["photo"] = {"error"}

(***************************************************************************)
(* Anchor navigation (SpecScroll): init(), clicks on the anchors and the   *)
(* viewport handlers (a resize reflows the header), with and without a     *)
(* header element.                                                         *)
(***************************************************************************)
ScrollPages ==
    {Page(rs, TRUE, FALSE, hdr, hh, tt, [i \in Images |-> "loaded"],
          [l \in ExtLinks |-> FALSE], [l \in ExtLinks |-> Unset], 600) :
        rs \in ReadyStates, hdr \in BOOLEAN, hh \in HeaderHeights,
        tt \in [Targets -> OffsetTops]}

InitScroll == InitWith(ScrollPages)

NextScroll ==
    \/ InitSteps
    \/ \E a \in Anchors : onAnchorClick(a)
    \/ ViewEventsOver({600}, HeaderHeights, MaxTimers)

SpecScroll == InitScroll /\ [][NextScroll]_vars

\* hrefs that are neither empty nor the bare hash and match no element
Missing == (Anchors \ Targets) \ {"#", ""}

\* C7: a step that records a click changes nothing but the click record,
\* and when the clicked fragment matches no element the record shows the
\* default suppressed and no scrollTo call.
C7_MissingTarget ==
    [][lastClick' # lastClick =>
         /\ UNCHANGED <<pageVars, animVars, motionVars, hasHeader, headerHeight,
                        targetTop, imageVars, linkVars, viewVars>>
         /\ lastClick'.href \in Missing =>
              /\ lastClick'.prevented
              /\ lastClick'.scrolls = <<>>]_vars

\* C7 witness: the latest click was on the anchor whose fragment is missing
C7_Witness ==
    /\ lastClick.href = "#missing"
    /\ lastClick.prevented
    /\ lastClick.scrolls = <<>>
    /\ vh # Unset

\* C8: a step that records a click on an anchor whose fragment resolves
\* shows the default suppressed and exactly one scrollTo call, smooth, to
\* the target's offsetTop minus the header's height as it is at that step
\* (0 when there is no header element).
C8_ScrollBelowHeader ==
    [][(lastClick' # lastClick /\ lastClick'.href \in Targets) =>
         /\ lastClick'.prevented
         /\ Len(lastClick'.scrolls) = 1
         /\ lastClick'.scrolls[1].behavior = "smooth"
         /\ lastClick'.scrolls[1].top =
                targetTop[lastClick'.href] - (IF hasHeader THEN headerHeight ELSE 0)]_vars

\* C8 witness: after a resize, a click scrolled to the target less a header
\* of height 60
C8_Witness ==
    /\ lastClick.href = "#work"
    /\ hasHeader
    /\ headerHeight = 60
    /\ burst.events > 0
    /\ lastClick.scrolls = <<[top |-> targetTop["#work"] - 60, behavior |-> "smooth"]>>

(***************************************************************************)
(* Further properties of the whole page (Spec).                            *)
(***************************************************************************)
\* init() has returned from initScrollAnimations()
AfterScrollAnimations ==
    pc \in {"initSmoothScroll", "optimizeImageLoading", "initGifPreloading",
            "secureExternalLinks", "enhanceKeyboardNavigation", "setVhProperty",
            "addResizeListeners", "done"}

\* C11 as claimed: when initScrollAnimations() returns, no element that
\* already has animate-in is observed.
C11_NoWatcherOnRevealed ==
    pc = "initSmoothScroll" => watched \cap animateIn = {}

\* C11 as amended: where IntersectionObserver exists, initScrollAnimations()
\* starts observing every data-animate element, those checkReducedMotion()
\* has already revealed included, and until init() returns every one of
\* them stays observed.
C11_WatchesEveryElement ==
    (hasIO /\ AfterScrollAnimations /\ pc # "done") => watched = AnimEls

\* C11 witness: initScrollAnimations() has just returned on a page whose
\* elements checkReducedMotion() had all revealed, and observes them all
C11_Witness ==
    /\ pc = "initSmoothScroll"
    /\ hasIO
    /\ "reduce-motion" \in bodyClass
    /\ animateIn = AnimEls
    /\ watched = AnimEls

\* the targets a list of entries reports as intersecting
Intersecting(entries) ==
    {entries[k].target : k \in {j \in 1..Len(entries) : entries[j].isIntersecting}}

\* C12: whatever entries the observer delivers next, the callback reveals
\* exactly the targets some entry reports as intersecting and stops
\* observing exactly those, leaving a target with only non-intersecting
\* entries as pending or revealed as it was and still observed; and in every
\* step after init() an element that becomes revealed was observed before
\* the step and is not observed after it, an element that stops being
\* observed is revealed, and no element starts being observed, so an
\* element the watcher revealed is never the target of a callback again.
C12_FireOnce ==
    /\ [](\A entries \in EntryLists :
            LET st == DeliverEntries(entries, 1,
                                     [animateIn |-> animateIn, watched |-> watched])
            IN  /\ st.animateIn = animateIn \cup Intersecting(entries)
                /\ st.watched = watched \ Intersecting(entries))
    /\ [][pc = "done" =>
            /\ watched' \subseteq watched
            /\ (animateIn' \ animateIn) \subseteq (watched \ watched')
            /\ (watched \ watched') \subseteq animateIn']_vars

\* C12 witness: the watcher has revealed one element and stopped observing
\* it, the other is still pending and observed
C12_Witness ==
    /\ pc = "done"
    /\ hasIO
    /\ "reduce-motion" \notin bodyClass
    /\ animateIn = {"card"}
    /\ watched = {"hero"}

(***************************************************************************)
(* Orientation changes (SpecView).                                         *)
(***************************************************************************)
OrientationTimers == {t \in timers : t.kind = "orientation"}

\* C13: every orientationchange event so far has either caused its own
\* recomputation or still has its own timeout pending.  An
\* orientationchange event adds one timeout due 100 time-units later and
\* leaves every pending timeout in place; no step removes an orientation
\* timeout except the step in which that timeout, its 100 time-units
\* elapsed, runs and recomputes the viewport height, and a resize event in
\* particular removes none.  Recomputations by the resize debounce are not
\* counted among these.
C13_OrientationNotDebounced ==
    /\ [](orient.events = orient.fired + Cardinality(OrientationTimers))
    /\ [][/\ orient.events' # orient.events =>
                \E t \in timers' \ timers :
                    /\ t.kind = "orientation"
                    /\ t.remaining = TimerDelay
                    /\ timers' = timers \cup {t}
                    /\ orient.events' = orient.events + 1
          /\ \A t \in OrientationTimers :
                (\A u \in timers' : u.id # t.id) =>
                    /\ t.remaining = 0
                    /\ orient.fired' = orient.fired + 1
                    /\ vh' = Some(VhValue(innerHeight))
          /\ orient.fired' # orient.fired =>
                /\ orient.fired' = orient.fired + 1
                /\ Cardinality(OrientationTimers') = Cardinality(OrientationTimers) - 1]_vars

\* C13 witness: of two orientation changes within 100 time-units of each
\* other, with a resize event after them, the first has recomputed and the
\* second is still pending next to the resize timeout
C13_Witness ==
    /\ orient.events = 2
    /\ orient.fired = 1
    /\ ResizeTimers # {}
    /\ \E t \in OrientationTimers : t.remaining > 0 /\ t.remaining < TimerDelay

(***************************************************************************)
(* Keyboard mode and the reduced-motion preference (Spec).                 *)
(***************************************************************************)
\* C14: the body carries using-keyboard exactly when, among the keydown and
\* mousedown events the page has handled, there is a Tab keydown with no
\* mousedown after it; a keydown of another key counts as neither, so it
\* leaves the class as it was.
C14_LastInputWins ==
    "using-keyboard" \in bodyClass <=> tabSinceMouse

\* C14 witness: keyboard mode is on after init, with the preference for
\* reduced motion mirrored next to it
C14_Witness ==
    /\ pc = "done"
    /\ tabSinceMouse
    /\ bodyClass = {"using-keyboard", "reduce-motion"}

\* C15: from the end of checkReducedMotion() on, so at the end of init()
\* and after every change event of the media query, the body carries
\* reduce-motion exactly when the media query matches.
C15_ClassMirrorsPreference ==
    (AfterReducedMotion \/ pc = "done") =>
        ("reduce-motion" \in bodyClass <=> mqMatches)

\* C15 witness: the preference was on at startup (every element was force-
\* revealed and then observed) and has since gone off, and the class is gone
C15_Witness ==
    /\ pc = "done"
    /\ hasIO
    /\ animateIn = AnimEls
    /\ watched = AnimEls
    /\ ~mqMatches
    /\ "reduce-motion" \notin bodyClass

\* C16: a step in which the media query changes after init() leaves the
\* revealed and the observed elements, the timers, the viewport height, the
\* images, the links, the listeners and the stagger delays as they were,
\* and changes no class of the body other than reduce-motion.
C16_ChangeOnlyTogglesClass ==
    [][(pc = "done" /\ mqMatches' # mqMatches) =>
          /\ UNCHANGED <<pageVars, animVars, scrollVars, imageVars, linkVars, viewVars>>
          /\ bodyClass' \ {"reduce-motion"} = bodyClass \ {"reduce-motion"}
          /\ "reduce-motion" \in bodyClass' <=> mqMatches']_vars

\* C16 witness: the preference, off at startup, is on now; every element is
\* still pending and observed, a timeout is pending and keyboard mode is on
C16_Witness ==
    /\ pc = "done"
    /\ mqMatches
    /\ bodyClass = {"reduce-motion", "using-keyboard"}
    /\ animateIn = {}
    /\ watched = AnimEls
    /\ timers # {}

(***************************************************************************)
(* The order of init() (Spec).                                             *)
(***************************************************************************)
\* the setup calls of init() in their order
InitOrder ==
    <<"checkReducedMotion", "addStaggerDelay", "initScrollAnimations",
      "initSmoothScroll", "optimizeImageLoading", "initGifPreloading",
      "secureExternalLinks", "enhanceKeyboardNavigation", "setVhProperty">>

\* the page as the script found it: no class, no reveal, no observed
\* element, no stagger delay, no --vh, no timeout, and no listener other
\* than the one that defers init()
NothingSetUp ==
    /\ listeners \subseteq {"DOMContentLoaded"}
    /\ bodyClass = {}
    /\ animateIn = {}
    /\ watched = {}
    /\ \A c \in Cards : transitionDelay[c] = Unset
    /\ \A i \in Images : imgClass[i] = {}
    /\ imgListeners = {}
    /\ hoverArmed = {}
    /\ \A l \in ExtLinks : rel[l] = rel0[l]
    /\ vh = Unset
    /\ timers = {}

\* C17: while the document is loading no setup call has run and the page
\* is as the script found it; the setup calls made so far are always an
\* initial part of the fixed order, each made once; and once init() has
\* returned, in the deferred and in the immediate case alike, the calls
\* made are exactly the nine of the fixed order, for the rest of the run.
C17_DeferredOneShotInit ==
    /\ readyState = "loading" => (calls = <<>> /\ NothingSetUp)
    /\ Len(calls) <= Len(InitOrder)
    /\ calls = SubSeq(InitOrder, 1, Len(calls))
    /\ pc = "done" => calls = InitOrder
    /\ pc \in {"start", "waiting"} => calls = <<>>

\* C17 witness: init() was deferred, DOMContentLoaded has come, and the
\* whole sequence has run
C17_Witness ==
    /\ pc = "done"
    /\ readyState = "interactive"
    /\ "DOMContentLoaded" \in listeners
    /\ calls = InitOrder

(***************************************************************************)
(* The fallback without IntersectionObserver (Spec).                       *)
(***************************************************************************)
\* C18: in a browser without IntersectionObserver, from the return of
\* initScrollAnimations() on, during the rest of init() and ever after,
\* every data-animate element is revealed and none is observed.
C18_FallbackRevealsAll ==
    (~hasIO /\ AfterScrollAnimations) => (animateIn = AnimEls /\ watched = {})

\* C18 witness: without IntersectionObserver and with no preference for
\* reduced motion, initScrollAnimations() has just revealed every element
C18_Witness ==
    /\ pc = "initSmoothScroll"
    /\ ~hasIO
    /\ ~mqMatches
    /\ bodyClass = {}
    /\ animateIn = AnimEls
    /\ watched = {}

(***************************************************************************)
(* The bare hash (SpecScroll).                                             *)
(***************************************************************************)
\* hrefs the click listener returns on at once
Bare == {"#", ""}

\* C19: for the href "#" and for the empty href the click listener neither
\* suppresses the default nor calls scrollTo, and a step that records a
\* click on the anchor with href "#" records just that and changes nothing
\* else.
C19_BareHashIsNoOp ==
    /\ [](\A href \in Bare :
            /\ ~ClickOutcome(href).prevented
            /\ ClickOutcome(href).scrolls = <<>>)
    /\ [][(lastClick' # lastClick /\ lastClick'.href \in Bare) =>
            /\ ~lastClick'.prevented
            /\ lastClick'.scrolls = <<>>
            /\ UNCHANGED <<pageVars, animVars, motionVars, hasHeader, headerHeight,
                           targetTop, imageVars, linkVars, viewVars>>]_vars

\* C19 witness: the latest click was on the anchor with href "#", on a page
\* with a header whose height is not 0
C19_Witness ==
    /\ pc = "done"
    /\ lastClick.href = "#"
    /\ ~lastClick.prevented
    /\ lastClick.scrolls = <<>>
    /\ hasHeader
    /\ headerHeight > 0

(***************************************************************************)
(* Convergence of --vh (SpecViewFair): SpecView with init() running to its *)
(* end, time passing and every due timeout running.                        *)
(***************************************************************************)
SpecViewFair ==
    /\ SpecView
    /\ WF_vars(InitSteps)
    /\ WF_vars(Tick)
    /\ WF_vars(onResizeTimer)
    /\ WF_vars(onOrientationTimer)

\* C20: in every run, which has finitely many resize and orientationchange
\* events, each carrying the inner height it leaves, there is a point from
\* which on no timeout is pending and --vh is one hundredth of the current
\* inner height, in px.
C20_VhConverges ==
    <>[](timers = {} /\ vh = Some(VhValue(innerHeight)))

\* C20 witness: after as many resize and orientationchange events as a run
\* has, some of each, every timeout has run and --vh is current
C20_Witness ==
    /\ pc = "done"
    /\ nextTimerId = MaxTimers + 1
    /\ orient.fired >= 1
    /\ burst.fired >= 1
    /\ timers = {}
    /\ vh = Some(VhValue(innerHeight))

====
